---- MODULE Spec2Model ----
(***************************************************************************)
(* Model of the ILLORA RETREATS concierge code:                            *)
(*   src/services/qa_agent.py  ConciergeBot (__init__, _load_dos_donts,    *)
(*                             _build_prompt, ask)                         *)
(*   src/dashboard.py          load_json / save_json, the Campaigns        *)
(*                             Manager tab and the Do's & Don'ts tab       *)
(*                                                                         *)
(* Text.  A Python str is a sequence of one-character strings, so that     *)
(* lower(), strip(), `in` and join are computed and not assumed.  A fixed  *)
(* literal of the source (the prompt preamble, a canned reply) is one      *)
(* element holding the whole literal; user text never holds such an        *)
(* element.  Non-ASCII marks of the literals are written in ASCII.         *)
(* Python's None is the value PyNone.                                      *)
(*                                                                         *)
(* Files.  A JSON file is the JSON value it holds (json.load of json.dump  *)
(* of a value is that value), or is missing, or holds no JSON.  The bot's  *)
(* "data/dos_donts.json" and the dashboard's 'data\\dos_donts.json' are the *)
(* same file, as under the Windows separators the dashboard is written     *)
(* for.  Opening, writing and closing a file is one step.                  *)
(***************************************************************************)
EXTENDS Integers, Sequences, FiniteSets, TLC

VARIABLES
    ddFile,     \* data/dos_donts.json on disk
    campFile,   \* data/campaigns.json on disk
    uuids,      \* number of uuid4() values handed out so far
    bot,        \* the ConciergeBot instance: retriever, llm, dos_donts
    call,       \* the ask() call in progress or last returned
    trace,      \* calls made on the retriever and the llm during `call`
    sess        \* per dashboard session: the script run and its page

vars == <<ddFile, campFile, uuids, bot, call, trace, sess>>

----------------------------------------------------------------------------
(* Bounds of the model *)

\* longest list a form submit may still append to
MaxEntries == 2
\* uuid4() values available to Create Campaign
MaxUuid == 2

----------------------------------------------------------------------------
(* Python values and str methods *)

PyNone == <<"<None>">>

Whitespace == {" ", "\n", "\t"}

UpperAlpha == <<"A","B","C","D","E","F","G","H","I","J","K","L","M",
                "N","O","P","Q","R","S","T","U","V","W","X","Y","Z">>
LowerAlpha == <<"a","b","c","d","e","f","g","h","i","j","k","l","m",
                "n","o","p","q","r","s","t","u","v","w","x","y","z">>

LowerChar(c) ==
    IF \E i \in 1..26 : UpperAlpha[i] = c
    THEN LowerAlpha[CHOOSE i \in 1..26 : UpperAlpha[i] = c]
    ELSE c

\* str.lower()
Lower(s) == [i \in 1..Len(s) |-> LowerChar(s[i])]

\* str.strip(): drop leading and trailing whitespace
Strip(s) ==
    LET keep == {i \in 1..Len(s) : s[i] \notin Whitespace}
    IN  IF keep = {} THEN <<>>
        ELSE LET lo == CHOOSE i \in keep : \A j \in keep : i <= j
                 hi == CHOOSE i \in keep : \A j \in keep : j <= i
             IN  SubSeq(s, lo, hi)

\* term in s
Contains(term, s) ==
    \E i \in 0..(Len(s) - Len(term)) : SubSeq(s, i + 1, i + Len(term)) = term

\* sep.join(parts)
RECURSIVE Join(_, _)
Join(sep, parts) ==
    IF parts = <<>> THEN <<>>
    ELSE IF Len(parts) = 1 THEN parts[1]
    ELSE parts[1] \o sep \o Join(sep, Tail(parts))

\* (query or "")
OrEmpty(x) == IF x = PyNone \/ x = <<>> THEN <<>> ELSE x

\* the text an f-string puts for {x}
Format(x) == IF x = PyNone THEN <<"N","o","n","e">> ELSE x

\* dict.get(key, default)
Get(entry, key, default) == IF key \in DOMAIN entry THEN entry[key] ELSE default

----------------------------------------------------------------------------
(* Files *)

Missing == [kind |-> "missing", data |-> <<>>]
Garbage == [kind |-> "garbage", data |-> <<>>]
Json(list) == [kind |-> "json", data |-> list]

\* qa_agent._load_dos_donts: no file or no JSON gives [], and writes nothing
_load_dos_donts(file) ==
    IF file.kind = "missing" THEN <<>>
    ELSE IF file.kind = "garbage" THEN <<>>
    ELSE file.data

----------------------------------------------------------------------------
(* qa_agent.py: literals *)

\* ask, lines 86-88
restricted_services ==
    << <<"w","a","k","e","-","u","p"," ","c","a","l","l">>,
       <<"s","p","a">>,
       <<"g","y","m">>,
       <<"p","o","o","l">>,
       <<"r","o","o","m"," ","s","e","r","v","i","c","e">>,
       <<"b","o","o","k"," ","a"," ","r","o","o","m">>,
       <<"b","o","o","k","i","n","g">> >>

\* ask, lines 93-96
Refusal ==
    <<"We're sorry, this service is exclusive to *guests* at ILLORA RETREATS.\nFeel free to explore our dining options, events, and lobby amenities!">>

\* ask, line 111
DefaultReply ==
    <<"I'm here to help with any questions about ILLORA RETREATS.">>

\* ask, lines 116-119
Fallback ==
    <<"We're sorry, there was an issue while assisting you. Please feel free to ask again or contact the ILLORA RETREATS front desk for immediate help.">>

\* _build_prompt, lines 74-78
Preamble ==
    <<"You are a knowledgeable, polite, and concise concierge assistant at *ILLORA RETREATS*, a premium hotel known for elegant accommodations, gourmet dining, rejuvenating spa treatments, a fully-equipped gym, pool access, 24x7 room service, meeting spaces, and personalized hospitality.\n\nAnswer strictly using the Hotel Data below. If the data does not contain the answer, say: 'I don't have that information in the hotel data yet.'\n\n">>

HotelDataLabel == "Hotel Data:\n"
GuestQueryLabel == "Guest Query: "
RulesHeader == "\n\n[clipboard] **Important Communication Rules:**\n"
DoBullet == "- [check] Do: "
DontBullet == "- [cross] Don't: "

----------------------------------------------------------------------------
(* Inputs of ask and answers of the two external services *)

Queries ==
    { PyNone, <<>>,
      <<"h","i">>,
      <<"S","p","a","?">>,
      <<"s","p","a","c","e">>,
      <<"G","Y","M">>,
      <<"p","o","o","l">>,
      <<"B","o","o","k","i","n","g">>,
      <<"b","o","o","k"," ","a"," ","r","o","o","m">>,
      <<"r","o","o","m"," ","s","e","r","v","i","c","e">>,
      <<"W","a","k","e","-","U","p"," ","C","a","l","l">>,
      <<"w","a","k","e"," ","u","p"," ","c","a","l","l">> }

\* user_type: None, or any str; only equality with "non-guest" is used
NoUserType == "<None>"
UserTypes == {NoUserType, "guest", "non-guest", "Non-Guest"}

\* page_content of the documents the retriever can return
DocA == <<"S","p","a",":"," ","9","-","5">>
DocB == <<"B","a","r">>
DocLists == {<<>>, <<DocA>>, <<DocA, DocB>>}

RetrieverOutcomes ==
    {[raises |-> TRUE, docs |-> <<>>]} \cup
    {[raises |-> FALSE, docs |-> d] : d \in DocLists}

\* AIMessage.content that is a list of content blocks, not a str
PyList == <<"<list>">>

\* self.llm is a ChatOpenAI (line 30): invoke raises or returns an AIMessage,
\* which always has a content attribute.
Contents ==
    { <<>>, <<" ","\n">>, <<"Y","e","s",".">>, <<" ","o","k"," ","\n">>, PyList }

Message(c) == [has_content |-> TRUE, content |-> c, repr |-> <<"AIMessage">>]
NoResponse == [has_content |-> FALSE, content |-> <<>>, repr |-> <<>>]

LLMOutcomes ==
    {[raises |-> TRUE, response |-> NoResponse]} \cup
    {[raises |-> FALSE, response |-> Message(c)] : c \in Contents}

----------------------------------------------------------------------------
(* qa_agent.py: ConciergeBot *)

Ok(v) == [raised |-> FALSE, value |-> v]
Raise == [raised |-> TRUE, value |-> <<>>]

\* variant of EntryLines that puts the Don't line first
EntryLinesDontFirst(entry) ==
    LET do == Strip(Get(entry, "do", <<>>))
        dont == Strip(Get(entry, "dont", <<>>))
    IN  (IF dont # <<>> THEN <<DontBullet>> \o dont \o <<"\n">> ELSE <<>>) \o
        (IF do # <<>> THEN <<DoBullet>> \o do \o <<"\n">> ELSE <<>>)

\* _build_prompt, lines 65-71: the lines one entry adds to rules_text
EntryLines(entry) ==
    LET do == Strip(Get(entry, "do", <<>>))
        dont == Strip(Get(entry, "dont", <<>>))
    IN  (IF do # <<>> THEN <<DoBullet>> \o do \o <<"\n">> ELSE <<>>) \o
        (IF dont # <<>> THEN <<DontBullet>> \o dont \o <<"\n">> ELSE <<>>)

\* _build_prompt, lines 62-71
RECURSIVE RuleLines(_)
RuleLines(dos_donts) ==
    IF dos_donts = <<>> THEN <<>>
    ELSE EntryLines(Head(dos_donts)) \o RuleLines(Tail(dos_donts))

RulesText(dos_donts) ==
    IF dos_donts # <<>> THEN <<RulesHeader>> \o RuleLines(dos_donts) ELSE <<>>

\* None has no strip(): entry.get(...).strip() raises for a JSON null
StripRaises(dos_donts) ==
    \E i \in 1..Len(dos_donts) :
        \/ Get(dos_donts[i], "do", <<>>) = PyNone
        \/ Get(dos_donts[i], "dont", <<>>) = PyNone

\* _build_prompt(self, hotel_data, query), with self.dos_donts as dos_donts
_build_prompt(dos_donts, hotel_data, query) ==
    IF StripRaises(dos_donts) THEN Raise
    ELSE Ok(Preamble \o
            <<HotelDataLabel>> \o hotel_data \o <<"\n", "\n">> \o
            <<GuestQueryLabel>> \o Format(query) \o <<"\n">> \o
            RulesText(dos_donts))

\* variant of AccessBlocked that matches the query as typed
AccessBlockedCaseSensitive(query, user_type) ==
    /\ user_type = "non-guest"
    /\ \E i \in 1..Len(restricted_services) :
           Contains(restricted_services[i], OrEmpty(query))

\* ask, lines 89-92: the guests-only gate
AccessBlocked(query, user_type) ==
    LET lower_query == Lower(OrEmpty(query))
    IN  /\ user_type = "non-guest"
        /\ \E i \in 1..Len(restricted_services) :
               Contains(restricted_services[i], lower_query)

\* ask, line 100
HotelData(docs) ==
    IF docs # <<>> THEN Join(<<"\n", "\n">>, docs) ELSE <<>>

\* ask, line 108
FinalAnswer(response) ==
    IF response.has_content
    THEN IF response.content = PyList THEN Raise
         ELSE Ok(Strip(response.content))
    ELSE Ok(response.repr)

\* variant of Returned without the default reply
ReturnedNoDefault(final_answer) == final_answer

\* ask, line 111
Returned(final_answer) ==
    IF final_answer # <<>> THEN final_answer ELSE DefaultReply

NoCall ==
    [pc |-> "idle", query |-> <<>>, user_type |-> NoUserType, docs |-> <<>>,
     hotel_data |-> <<>>, prompt |-> <<>>, response |-> NoResponse,
     result |-> <<>>, failed |-> "no", after_failure |-> FALSE]

NoBot == [ready |-> FALSE, retriever |-> "", llm |-> "", dos_donts |-> <<>>]

\* __init__, lines 17-41: the store, the retriever and the model handle are
\* made, then the Do's & Don'ts file is read once
BotConstruct ==
    /\ ~bot.ready
    /\ bot' = [ready |-> TRUE, retriever |-> "mmr", llm |-> "ChatOpenAI",
               dos_donts |-> _load_dos_donts(ddFile)]
    /\ UNCHANGED <<ddFile, campFile, uuids, call, trace, sess>>

\* ask, lines 113-119: any exception ends the call with the fallback text.
\* (pc "raised" would be a call that ended by raising to its caller.)
\* variant of Failed without the except clause
FailedPropagates(at) == [call EXCEPT !.pc = "raised", !.failed = at]
Failed(at) == [call EXCEPT !.pc = "returned", !.failed = at, !.result = Fallback]

\* ask, lines 84-96: entry and the guests-only gate
AskEnter(qs) ==
    /\ bot.ready
    /\ call.pc \in {"idle", "returned", "raised"}
    /\ \E query \in qs, user_type \in UserTypes :
          LET new == [NoCall EXCEPT !.query = query, !.user_type = user_type,
                                    !.after_failure = (call.failed # "no")]
          IN  call' = IF AccessBlocked(query, user_type)
                      THEN [new EXCEPT !.pc = "returned", !.result = Refusal]
                      ELSE [new EXCEPT !.pc = "retrieve"]
    /\ trace' = <<>>
    /\ UNCHANGED <<ddFile, campFile, uuids, bot, sess>>

\* variant of AskRetrieve that searches with the lower-cased query
AskRetrieveLowered ==
    /\ call.pc = "retrieve"
    /\ trace' = Append(trace, [op |-> "retriever.invoke",
                               arg |-> Lower(OrEmpty(call.query))])
    /\ \E out \in RetrieverOutcomes :
          call' = IF out.raises THEN Failed("retriever")
                  ELSE [call EXCEPT !.pc = "build", !.docs = out.docs,
                                    !.hotel_data = HotelData(out.docs)]
    /\ UNCHANGED <<ddFile, campFile, uuids, bot, sess>>

\* ask, lines 99-100
AskRetrieve ==
    /\ call.pc = "retrieve"
    /\ trace' = Append(trace, [op |-> "retriever.invoke", arg |-> call.query])
    /\ \E out \in RetrieverOutcomes :
          call' = IF out.raises THEN Failed("retriever")
                  ELSE [call EXCEPT !.pc = "build", !.docs = out.docs,
                                    !.hotel_data = HotelData(out.docs)]
    /\ UNCHANGED <<ddFile, campFile, uuids, bot, sess>>

\* variant of AskBuild that reads the Do's & Don'ts file again
AskBuildReloading ==
    /\ call.pc = "build"
    /\ LET built == _build_prompt(_load_dos_donts(ddFile), call.hotel_data,
                                  call.query)
       IN  call' = IF built.raised THEN Failed("prompt")
                   ELSE [call EXCEPT !.pc = "invoke", !.prompt = built.value]
    /\ UNCHANGED <<ddFile, campFile, uuids, bot, trace, sess>>

\* ask, line 103
AskBuild ==
    /\ call.pc = "build"
    /\ LET built == _build_prompt(bot.dos_donts, call.hotel_data, call.query)
       IN  call' = IF built.raised THEN Failed("prompt")
                   ELSE [call EXCEPT !.pc = "invoke", !.prompt = built.value]
    /\ UNCHANGED <<ddFile, campFile, uuids, bot, trace, sess>>

\* ask, lines 106-111
AskInvoke ==
    /\ call.pc = "invoke"
    /\ trace' = Append(trace, [op |-> "llm.invoke", arg |-> call.prompt])
    /\ \E out \in LLMOutcomes :
          call' = IF out.raises THEN Failed("llm")
                  ELSE LET answer == FinalAnswer(out.response)
                       IN  IF answer.raised
                           THEN [Failed("answer") EXCEPT !.response = out.response]
                           ELSE [call EXCEPT !.pc = "returned",
                                             !.response = out.response,
                                             !.result = Returned(answer.value)]
    /\ UNCHANGED <<ddFile, campFile, uuids, bot, sess>>

----------------------------------------------------------------------------
Sessions == {1, 2}

(* dashboard.py: one Streamlit session runs the script top to bottom on every
   interaction; a run is started by loading the page or by one button, so at
   most one form is submitted in a run.  What a form holds is read only by
   its own `if st.form_submit_button(...)`, so the model draws it there.
   pc of a session:
     "new"             no run yet
     "campaigns_exists", "campaigns_read", "campaigns_form",
     "dos_donts_exists", "dos_donts_read", "dos_donts_form"
                       the statement the run is about to execute
     "page"            the run is over and its page is shown                 *)

\* load_json, lines 26-30: what is returned for a file that exists
ReadJson(file, default) ==
    IF file.kind = "json" THEN file.data ELSE default

\* variants of save_json: one that writes only the new entry, one that
\* appends the new entry to what the file holds at the time of the write
SaveJsonNewOnly(old, data) == Json(<<data[Len(data)]>>)
SaveJsonMerging(old, data) == Json(ReadJson(old, <<>>) \o <<data[Len(data)]>>)

\* save_json, lines 32-34: the file `old` is replaced by the dump of data
save_json(old, data) == Json(data)

\* Create Campaign, lines 206-217
NewCampaign(name, uuid) ==
    [id |-> uuid, name |-> name, description |-> "",
     discount_type |-> "percent", discount_value |-> 10,
     start_date |-> "today", end_date |-> "today", active |-> TRUE,
     created_at |-> "utcnow"]

\* variant of IsFilled that does not strip
IsFilledUnstripped(do_text, dont_text) == do_text # <<>> \/ dont_text # <<>>

\* Add Instruction, line 243
IsFilled(do_text, dont_text) == Strip(do_text) # <<>> \/ Strip(dont_text) # <<>>

\* Add Instruction, line 244
NewEntry(do_text, dont_text) == [do |-> Strip(do_text), dont |-> Strip(dont_text)]

\* what the widgets can hold when a form is submitted
CampaignNames == {"Spa Week"}
InstructionTexts ==
    { [do_text |-> <<" ", "\t">>, dont_text |-> <<>>],
      [do_text |-> <<" ","H","i","\n">>, dont_text |-> <<" ">>],
      [do_text |-> <<>>, dont_text |-> <<"R","u","s","h"," ">>] }

\* button: the run was started by a form button not yet reached
\* exists:  what os.path.exists said in the load_json under way
\* do_text, dont_text, notice: what the submitted form held and what the
\* page answered; they stay on record until the next run starts
\* form, do_text, dont_text, notice: the form this run submitted, what it held
\* and what the page answered; they stay on record until the next run starts
NoRun == [pc |-> "new", button |-> FALSE, exists |-> FALSE, campaigns |-> <<>>,
          dos_donts |-> <<>>, form |-> "none", do_text |-> <<>>,
          dont_text |-> <<>>, notice |-> ""]

\* the script ends: its lists are gone, the page shows the notice
Page(form, do_text, dont_text, notice) ==
    [NoRun EXCEPT !.pc = "page", !.form = form, !.do_text = do_text,
                  !.dont_text = dont_text, !.notice = notice]

\* load_json, lines 24-25: a missing file is created holding the default
DumpDefault(default) == Json(default)

\* a run starts: the first load of the page, or an interaction with it
Run(s) ==
    /\ sess[s].pc \in {"new", "page"}
    /\ \E button \in {FALSE, sess[s].pc = "page"} :
          sess' = [sess EXCEPT ![s] = [NoRun EXCEPT !.pc = "campaigns_exists",
                                                    !.button = button]]
    /\ UNCHANGED <<ddFile, campFile, uuids, bot, call, trace>>

\* load_json(CAMPAIGNS_FILE, []), line 23
CampaignsExists(s) ==
    /\ sess[s].pc = "campaigns_exists"
    /\ sess' = [sess EXCEPT ![s].pc = "campaigns_read",
                            ![s].exists = (campFile.kind # "missing")]
    /\ UNCHANGED <<ddFile, campFile, uuids, bot, call, trace>>

\* load_json(CAMPAIGNS_FILE, []), lines 24-30
CampaignsRead(s) ==
    /\ sess[s].pc = "campaigns_read"
    /\ LET file == IF sess[s].exists THEN campFile ELSE DumpDefault(<<>>)
       IN  /\ campFile' = file
           /\ sess' = [sess EXCEPT ![s].pc = "campaigns_form",
                                   ![s].campaigns = ReadJson(file, <<>>)]
    /\ UNCHANGED <<ddFile, uuids, bot, call, trace>>

\* Campaigns Manager, lines 205-220: Create Campaign was pressed
CampaignsSubmit(s) ==
    /\ sess[s].pc = "campaigns_form"
    /\ sess[s].button
    /\ uuids < MaxUuid
    /\ uuids' = uuids + 1
    /\ \E name \in CampaignNames :
          LET campaigns == Append(sess[s].campaigns, NewCampaign(name, uuids + 1))
          IN  /\ campFile' = save_json(campFile, campaigns)
              /\ sess' = [sess EXCEPT ![s].pc = "dos_donts_exists",
                                      ![s].button = FALSE,
                                      ![s].campaigns = campaigns,
                                      ![s].form = "create_campaign",
                                      ![s].notice = "campaign_created"]
    /\ UNCHANGED <<ddFile, bot, call, trace>>

\* Campaigns Manager, line 205: Create Campaign was not pressed
CampaignsSkip(s) ==
    /\ sess[s].pc = "campaigns_form"
    /\ sess' = [sess EXCEPT ![s].pc = "dos_donts_exists"]
    /\ UNCHANGED <<ddFile, campFile, uuids, bot, call, trace>>

\* load_json(DOSDONTS_FILE, []), line 23
DosDontsExists(s) ==
    /\ sess[s].pc = "dos_donts_exists"
    /\ sess' = [sess EXCEPT ![s].pc = "dos_donts_read",
                            ![s].exists = (ddFile.kind # "missing")]
    /\ UNCHANGED <<ddFile, campFile, uuids, bot, call, trace>>

\* load_json(DOSDONTS_FILE, []), lines 24-30
DosDontsRead(s) ==
    /\ sess[s].pc = "dos_donts_read"
    /\ LET file == IF sess[s].exists THEN ddFile ELSE DumpDefault(<<>>)
       IN  /\ ddFile' = file
           /\ sess' = [sess EXCEPT ![s].pc = "dos_donts_form",
                                   ![s].dos_donts = ReadJson(file, <<>>)]
    /\ UNCHANGED <<campFile, uuids, bot, call, trace>>

\* Do's & Don'ts Manager, lines 242-249: Add Instruction was pressed
DosDontsSubmit(s) ==
    /\ sess[s].pc = "dos_donts_form"
    /\ sess[s].button
    /\ Len(sess[s].dos_donts) < MaxEntries
    /\ \E typed \in InstructionTexts :
          LET do_text == typed.do_text
              dont_text == typed.dont_text
          IN
          IF IsFilled(do_text, dont_text)
          THEN LET dos_donts == Append(sess[s].dos_donts, NewEntry(do_text, dont_text))
               IN  /\ ddFile' = save_json(ddFile, dos_donts)
                   /\ sess' = [sess EXCEPT ![s] =
                                  Page("add_dos_donts", do_text, dont_text,
                                       "instruction_added")]
          ELSE /\ ddFile' = ddFile
               /\ sess' = [sess EXCEPT ![s] =
                              Page("add_dos_donts", do_text, dont_text,
                                   "fill_at_least_one")]
    /\ UNCHANGED <<campFile, uuids, bot, call, trace>>

\* Do's & Don'ts Manager, line 242: Add Instruction was not pressed
DosDontsSkip(s) ==
    /\ sess[s].pc = "dos_donts_form"
    /\ sess' = [sess EXCEPT ![s] = Page(sess[s].form, <<>>, <<>>, sess[s].notice)]
    /\ UNCHANGED <<ddFile, campFile, uuids, bot, call, trace>>

Dashboard(s) ==
    \/ Run(s)
    \/ CampaignsExists(s) \/ CampaignsRead(s) \/ CampaignsSubmit(s) \/ CampaignsSkip(s)
    \/ DosDontsExists(s) \/ DosDontsRead(s) \/ DosDontsSubmit(s) \/ DosDontsSkip(s)

----------------------------------------------------------------------------
(* Contents the data files can have before the programs run *)

Hello == <<"H","i">>
Rush == <<"R","u","s","h">>

\* files as the dashboard writes them and as a hand-edited file can be: a key
\* left out, text with blanks around it, a JSON null
InitDDFiles ==
    { Missing, Garbage, Json(<<>>),
      Json(<<[do |-> Hello, dont |-> Rush]>>),
      Json(<<[dont |-> Rush], [do |-> <<" ">> \o Hello \o <<"\n">>]>>),
      Json(<<[do |-> <<" ">>, dont |-> <<>>]>>),
      Json(<<[do |-> Hello, dont |-> <<>>], [do |-> PyNone, dont |-> Rush]>>) }

InitAsk ==
    /\ ddFile \in InitDDFiles
    /\ campFile = Missing
    /\ uuids = 0
    /\ bot = NoBot
    /\ call = NoCall
    /\ trace = <<>>
    /\ sess = [s \in Sessions |-> NoRun]

NextAsk == BotConstruct \/ AskEnter(Queries) \/ AskRetrieve \/ AskBuild \/ AskInvoke

SpecAsk == InitAsk /\ [][NextAsk]_vars

\* Two dashboard sessions on the two files, no bot
OldCampaign ==
    [id |-> 0, name |-> "Monsoon", description |-> "", discount_type |-> "fixed",
     discount_value |-> 5, start_date |-> "today", end_date |-> "today",
     active |-> FALSE, created_at |-> "utcnow"]

InitDash ==
    /\ ddFile \in {Missing, Garbage, Json(<<>>)}
    /\ campFile \in {Missing, Json(<<OldCampaign>>)}
    /\ uuids = 0
    /\ bot = NoBot
    /\ call = NoCall
    /\ trace = <<>>
    /\ sess = [s \in Sessions |-> NoRun]

NextDash == \E s \in Sessions : Dashboard(s)

SpecDash == InitDash /\ [][NextDash]_vars

\* The bot and a dashboard session side by side, on any Do's & Don'ts file
PolicyQueries == {<<"h","i">>}

Init ==
    /\ ddFile \in InitDDFiles
    /\ campFile = Missing
    /\ uuids = 0
    /\ bot = NoBot
    /\ call = NoCall
    /\ trace = <<>>
    /\ sess = [s \in Sessions |-> NoRun]

Next ==
    \/ BotConstruct
    \/ AskEnter(PolicyQueries) \/ AskRetrieve \/ AskBuild \/ AskInvoke
    \/ Dashboard(1)

Spec == Init /\ [][Next]_vars

----------------------------------------------------------------------------
(* Claims about ConciergeBot, checked under SpecAsk *)

HasRestrictedTerm(query) ==
    \E i \in 1..Len(restricted_services) :
        Contains(restricted_services[i], Lower(OrEmpty(query)))

\* C1: a "non-guest" whose lower-cased query contains a restricted term gets
\* the guests-only refusal and neither the retriever nor the model is called;
\* for every other user_type the gate never blocks: the retriever is called.
C1_AccessControl ==
    call.pc # "idle" =>
        /\ (call.user_type = "non-guest" /\ HasRestrictedTerm(call.query)) =>
               /\ call.pc = "returned"
               /\ call.result = Refusal
               /\ trace = <<>>
        /\ (call.user_type # "non-guest" /\ call.pc = "returned") =>
               /\ call.result # Refusal
               /\ trace # <<>>
               /\ trace[1].op = "retriever.invoke"

C1_Witness ==
    /\ call.pc = "returned"
    /\ call.user_type = "non-guest"
    /\ call.query = <<"W","a","k","e","-","U","p"," ","C","a","l","l">>
    /\ call.result = Refusal
    /\ trace = <<>>

\* C2: a call that is not blocked and in which nothing fails calls the
\* retriever once with the raw query, then builds the prompt from the
\* retrieved passages and the query, then calls the model once with that
\* prompt, and returns the model's stripped text when it is non-empty.
C2_PipelineOrder ==
    /\ Len(trace) <= 2
    /\ Len(trace) >= 1 =>
           trace[1] = [op |-> "retriever.invoke", arg |-> call.query]
    /\ call.pc \in {"build", "invoke"} => Len(trace) = 1
    /\ (call.pc = "invoke" \/ Len(trace) = 2) =>
           call.prompt = _build_prompt(bot.dos_donts, HotelData(call.docs),
                                       call.query).value
    /\ Len(trace) = 2 =>
           /\ call.pc = "returned"
           /\ trace[2] = [op |-> "llm.invoke", arg |-> call.prompt]
    /\ (call.pc = "returned" /\ call.failed = "no" /\ call.result # Refusal) =>
           /\ Len(trace) = 2
           /\ Strip(call.response.content) # <<>> =>
                  call.result = Strip(call.response.content)

C2_Witness ==
    /\ call.pc = "returned"
    /\ call.failed = "no"
    /\ call.query = <<"G","Y","M">>
    /\ call.docs = <<DocA, DocB>>
    /\ Len(trace) = 2
    /\ call.result = <<"o","k">>

\* C3: ask never raises to its caller; when the retriever, the prompt
\* construction or the model call raises, ask returns the fallback text, and
\* the bot (retriever, model handle, loaded Do's & Don'ts) is left as it was.
C3_ErrorsContained ==
    /\ [](call.pc # "raised")
    /\ [](call.failed # "no" => call.pc = "returned" /\ call.result = Fallback)
    /\ [][bot.ready => bot' = bot]_vars

\* a call that returned the model's text after an earlier call had failed
C3_Witness ==
    /\ call.pc = "returned"
    /\ call.after_failure
    /\ call.failed = "no"
    /\ call.result = <<"Y","e","s",".">>

\* C8: ask returns a non-empty string: the refusal, the model's non-empty
\* stripped text, the default reply when that text is empty, or the fallback.
C8_NonEmptyResult ==
    call.pc = "returned" =>
        LET text == Strip(call.response.content)
        IN  /\ Len(call.result) > 0
            /\ \/ /\ call.result = Refusal
                  /\ call.failed = "no"
                  /\ trace = <<>>
               \/ /\ call.result = Fallback
                  /\ call.failed # "no"
               \/ /\ call.failed = "no"
                  /\ Len(trace) = 2
                  /\ text # <<>>
                  /\ call.result = text
               \/ /\ call.failed = "no"
                  /\ Len(trace) = 2
                  /\ text = <<>>
                  /\ call.result = DefaultReply

C8_Witness ==
    /\ call.pc = "returned"
    /\ call.query = PyNone
    /\ call.response.content = <<" ", "\n">>
    /\ call.result = DefaultReply

\* The k-th smallest element of a set of positions
Kth(S, k) == CHOOSE i \in S : Cardinality({j \in S : j < i}) = k - 1

Positions(prompt, token) == {i \in 1..Len(prompt) : prompt[i] = token}

\* The rule lines read back from a prompt: for each bullet, in order, its
\* kind and the text up to the end of its line
ParsedLines(prompt) ==
    LET bullets == Positions(prompt, DoBullet) \cup Positions(prompt, DontBullet)
        EndOf(b) == CHOOSE j \in (b + 1)..(Len(prompt) + 1) :
                        /\ j = Len(prompt) + 1 \/ prompt[j] = "\n"
                        /\ \A m \in (b + 1)..(j - 1) : prompt[m] # "\n"
    IN  [k \in 1..Cardinality(bullets) |->
            LET b == Kth(bullets, k)
            IN  [kind |-> prompt[b], text |-> SubSeq(prompt, b + 1, EndOf(b) - 1)]]

\* The lines the loaded list asks for: entry by entry, Do before Don't,
\* nothing for a field that is empty once stripped
WantedLines(dos_donts) ==
    LET Has(i, key) == Strip(Get(dos_donts[i], key, <<>>)) # <<>>
        Slots == {<<i, key>> \in (1..Len(dos_donts)) \X {"do", "dont"} : Has(i, key)}
        Before(a, b) == a[1] < b[1] \/ (a[1] = b[1] /\ a[2] = "do" /\ b[2] = "dont")
        Slot(k) == CHOOSE a \in Slots :
                       Cardinality({b \in Slots : Before(b, a)}) = k - 1
    IN  [k \in 1..Cardinality(Slots) |->
            [kind |-> IF Slot(k)[2] = "do" THEN DoBullet ELSE DontBullet,
             text |-> Strip(dos_donts[Slot(k)[1]][Slot(k)[2]])]]

\* C4: the prompt holds the hotel data and the query, then, only when the
\* loaded list is non-empty, the rules header followed in the list's order by
\* a Do line per non-empty stripped "do" and a Don't line per non-empty
\* stripped "dont" (Do before Don't within an entry), and nothing else.
C4_RulesInjection ==
    call.prompt # <<>> =>
        LET prompt == call.prompt
            headers == Positions(prompt, RulesHeader)
            data == Positions(prompt, HotelDataLabel)
            asked == Positions(prompt, GuestQueryLabel)
            lines == ParsedLines(prompt)
            rulesAt == IF headers = {} THEN Len(prompt) + 1 ELSE Kth(headers, 1)
            text == Format(call.query)
        IN  /\ Cardinality(data) = 1 /\ Cardinality(asked) = 1
            /\ LET d == Kth(data, 1)
                   q == Kth(asked, 1)
               IN  /\ d < q /\ q < rulesAt
                   /\ SubSeq(prompt, d + 1, d + Len(call.hotel_data)) = call.hotel_data
                   /\ SubSeq(prompt, q + 1, q + Len(text)) = text
                   /\ rulesAt = q + Len(text) + 2
            /\ (bot.dos_donts = <<>>) <=> (headers = {})
            /\ Cardinality(headers) <= 1
            /\ lines = WantedLines(bot.dos_donts)
            /\ \A k \in 1..Len(lines) : lines[k].text # <<>>
            \* the rules section is the header and these lines, nothing more
            /\ Len(prompt) = rulesAt - 1 + Cardinality(headers)
                             + Len(lines) * 2
                             + Len(Join(<<>>, [k \in 1..Len(lines) |-> lines[k].text]))

C4_Witness ==
    /\ call.prompt # <<>>
    /\ call.hotel_data # <<>>
    /\ bot.dos_donts = <<[dont |-> Rush], [do |-> <<" ">> \o Hello \o <<"\n">>]>>

----------------------------------------------------------------------------
(* Claims about the dashboard, checked under SpecDash *)

Ids(campaigns) == {campaigns[i].id : i \in 1..Len(campaigns)}

CreatesCampaign(s) ==
    sess[s].pc = "campaigns_form" /\ sess'[s].notice = "campaign_created"

AddsInstruction(s) ==
    sess[s].pc = "dos_donts_form" /\ sess'[s].notice = "instruction_added"

\* C5: a submit is load, append in memory, write the whole file: the write
\* keeps only what this session loaded plus its own entry, so what another
\* session saved since the load is gone from the file (a lost update).
C5_NoTransaction ==
    [][\A s \in Sessions :
          /\ CreatesCampaign(s) =>
                /\ Ids(campFile'.data) = Ids(sess[s].campaigns) \cup {uuids'}
                /\ \A id \in Ids(campFile.data) \ Ids(sess[s].campaigns) :
                       id \notin Ids(campFile'.data)
          /\ AddsInstruction(s) =>
                Len(ddFile'.data) = Len(sess[s].dos_donts) + 1
      ]_vars

\* both sessions were told their campaign was created, two campaigns were
\* created in all, and the file holds only one of them
C5_Witness ==
    /\ \A s \in Sessions : sess[s].pc = "page" /\ sess[s].notice = "campaign_created"
    /\ uuids = 2
    /\ Cardinality(Ids(campFile.data) \cap {1, 2}) = 1

\* C6: after a successful submit the file holds the loaded entries, unchanged
\* and in order, followed by exactly one new entry (with no other session
\* about, these are the entries the file held); a data file, once there, stays
\* there; and a run that found the file existing writes to it only by a
\* successful submit.
C6_AppendOnly ==
    [][/\ \A s \in Sessions :
             LET alone == \A t \in Sessions \ {s} : sess[t].pc = "new"
             IN  /\ CreatesCampaign(s) =>
                       LET loaded == sess[s].campaigns
                       IN  /\ campFile'.kind = "json"
                           /\ Len(campFile'.data) = Len(loaded) + 1
                           /\ SubSeq(campFile'.data, 1, Len(loaded)) = loaded
                           /\ campFile'.data[Len(loaded) + 1].id \notin Ids(loaded)
                           /\ alone => loaded = ReadJson(campFile, <<>>)
                 /\ AddsInstruction(s) =>
                       LET loaded == sess[s].dos_donts
                       IN  /\ ddFile'.kind = "json"
                           /\ Len(ddFile'.data) = Len(loaded) + 1
                           /\ SubSeq(ddFile'.data, 1, Len(loaded)) = loaded
                           /\ alone => loaded = ReadJson(ddFile, <<>>)
       /\ campFile.kind # "missing" => campFile'.kind # "missing"
       /\ ddFile.kind # "missing" => ddFile'.kind # "missing"
       /\ campFile' # campFile =>
              \E s \in Sessions :
                  \/ CreatesCampaign(s)
                  \/ sess[s].pc = "campaigns_read" /\ ~sess[s].exists
       /\ ddFile' # ddFile =>
              \E s \in Sessions :
                  \/ AddsInstruction(s)
                  \/ sess[s].pc = "dos_donts_read" /\ ~sess[s].exists
      ]_vars

\* one session alone has appended to both files, which held entries before
C6_Witness ==
    /\ sess[2].pc = "new"
    /\ sess[1].pc = "page" /\ sess[1].notice = "instruction_added"
    /\ Len(ddFile.data) = 2
    /\ Len(campFile.data) = 2 /\ campFile.data[1] = OldCampaign

Clean(entry) ==
    /\ DOMAIN entry = {"do", "dont"}
    /\ Strip(entry.do) = entry.do /\ Strip(entry.dont) = entry.dont
    /\ entry.do # <<>> \/ entry.dont # <<>>

Blank(text) == \A i \in 1..Len(text) : text[i] \in Whitespace

\* C7: Add Instruction with both texts blank shows the warning and leaves the
\* file as it is; so, from an empty file, every stored entry has a non-empty
\* "do" or "dont" and holds both stripped.
C7_BlankRejected ==
    /\ [](\A i \in 1..Len(ddFile.data) : Clean(ddFile.data[i]))
    /\ [][\A s \in Sessions :
             (sess[s].pc = "dos_donts_form" /\ sess'[s].form = "add_dos_donts") =>
                 IF Blank(sess'[s].do_text) /\ Blank(sess'[s].dont_text)
                 THEN /\ sess'[s].notice = "fill_at_least_one"
                      /\ ddFile' = ddFile
                 ELSE /\ sess'[s].notice = "instruction_added"
                      /\ ddFile'.data # <<>>
                      /\ ddFile'.data[Len(ddFile'.data)] =
                             [do |-> Strip(sess'[s].do_text),
                              dont |-> Strip(sess'[s].dont_text)]
          ]_vars

C7_Witness ==
    /\ sess[1].pc = "page"
    /\ sess[1].notice = "fill_at_least_one"
    /\ sess[1].do_text = <<" ", "\t">>
    /\ Len(ddFile.data) = 1

----------------------------------------------------------------------------
(* Claim about the bot beside the dashboard, checked under Spec *)

\* C9: the bot's Do's & Don'ts are what the file held when the bot was
\* constructed ([] if it was missing or unparseable); ask never re-reads or
\* changes them, so the prompts keep those rules whatever is added later.
C9_PolicySnapshot ==
    /\ [][(~bot.ready /\ bot'.ready) =>
              bot'.dos_donts = ReadJson(ddFile, <<>>) /\ ddFile' = ddFile]_vars
    /\ [][bot.ready => bot' = bot]_vars
    /\ [][call' # call => ddFile' = ddFile]_vars
    /\ [](call.prompt # <<>> =>
              /\ ParsedLines(call.prompt) = WantedLines(bot.dos_donts)
              /\ (Positions(call.prompt, RulesHeader) = {}) <=> (bot.dos_donts = <<>>))

\* an instruction was added after the bot was made from a missing file, and
\* the prompt about to go to the model has no rules
C9_Witness ==
    /\ bot.ready /\ bot.dos_donts = <<>>
    /\ sess[1].notice = "instruction_added"
    /\ ddFile.data # <<>>
    /\ call.pc = "invoke"
    /\ Positions(call.prompt, RulesHeader) = {}

====
